---- MODULE Spec2Model ----
(***************************************************************************)
(* The ESPN ETL pipeline of free-fantasy-football: the normalizer and      *)
(* aggregator of src/src/espn.py (source league -> snapshot), the store    *)
(* writer init_espn_data (snapshot -> SQLite tables in one transaction),   *)
(* and a reader on a connection of its own (execute_query).                *)
(*                                                                         *)
(* Python values.  An attribute of a source object is an option: <<>> when *)
(* the attribute is absent (access raises AttributeError, getattr yields   *)
(* its default) and <<v>> when it is present with value v.  None is <<>>.  *)
(* A call that can raise returns [ok |-> BOOLEAN, val |-> ...].            *)
(* Identifiers made by uuid4 are triples <<gen, kind, n>>: gen is the      *)
(* number of the run that made them, so two runs never share an id.        *)
(***************************************************************************)
EXTENDS Integers, Sequences, FiniteSets, TLC

VARIABLES
    league,     \* the source league the current call works on
    envOk,      \* ESPN_LEAGUE_ID and ESPN_YEAR parse as integers
    pc,         \* position of init_espn_data
    ip,         \* index of the next statement of the write phase
    run,        \* number of calls of init_espn_data started so far
    valid,      \* what validate_league_access returned: "none", "True", "False"
    snap,       \* what get_league_data returned ([ok, val])
    ret,        \* outcome of init_espn_data: "none", "True", "False", "raised"
    db,         \* committed contents of the database file
    tx,         \* uncommitted view of the writer's open connection
    pre,        \* db when the current call started
    stmts,      \* statements the current call has executed on its connection
    seen,       \* what the reader's last query saw, and when
    arg,        \* input of the pure function under check
    out         \* its result

vars == <<league, envOk, pc, ip, run, valid, snap, ret, db, tx, pre, stmts, seen, arg, out>>

----------------------------------------------------------------------------
(* Bounds                                                                   *)

MaxRoster == 2      \* longest source roster and free-agent list
MaxRuns == 2        \* calls of init_espn_data in one behaviour
NumPlayerIds == 2   \* distinct source player ids

(* Program constants                                                        *)

LastWeek == 17              \* range(1, 18)

Weeks == 1..LastWeek
TeamIds == 1..2
PlayerIds == 10..(9 + NumPlayerIds)      \* source player ids: 10, 11, ...
FirstPlayerId == CHOOSE i \in PlayerIds : \A j \in PlayerIds : i <= j

----------------------------------------------------------------------------
(* Python helpers                                                           *)

None == <<>>
Has(a) == a # <<>>
GetAttr(a, d) == IF Has(a) THEN a[1] ELSE d
Opt(a) == IF Has(a) THEN a ELSE None         \* getattr(obj, name, None)
Str(v) == ToString(v)                        \* str(int)
Raise == [ok |-> FALSE, val |-> None]
Return(v) == [ok |-> TRUE, val |-> v]
NewId(gen, kind, n) == <<gen, kind, n>>      \* str(uuid.uuid4())

\* source values whose Python type matters, tagged by type
PyBool(b) == [t |-> "bool", b |-> b]
PyInt(i) == [t |-> "int", i |-> i]
PyText(s) == [t |-> "str", s |-> s]
PyList(l) == [t |-> "list", l |-> l]
PyNone == [t |-> "none"]

\* bool(x)
Truthy(x) ==
    CASE x.t = "bool" -> x.b
      [] x.t = "int" -> x.i # 0
      [] x.t = "str" -> x.s # ""
      [] x.t = "none" -> FALSE
      [] OTHER -> x.l # <<>>

\* str(x)
PyStr(x) ==
    CASE x.t = "str" -> x.s
      [] x.t = "int" -> ToString(x.i)
      [] x.t = "bool" -> (IF x.b THEN "True" ELSE "False")
      [] x.t = "none" -> "None"
      [] OTHER -> "[...]"

RECURSIVE SeqToSet(_)
SeqToSet(s) == IF s = <<>> THEN {} ELSE {Head(s)} \cup SeqToSet(Tail(s))

SeqsUpTo(S, n) == UNION {[1..k -> S] : k \in 0..n}

----------------------------------------------------------------------------
(* Normalizer: src/src/models.py validation and src/src/espn.py converters  *)

position_mapping ==
    [c \in {"QB", "RB", "WR", "TE", "K", "DEF", "FLEX", "SUPERFLEX"} |-> c]

\* a lookup without the default: None for a code that is not in the table
map_espn_position_no_default(espn_position) ==
    IF espn_position \in DOMAIN position_mapping
    THEN position_mapping[espn_position] ELSE "None"

map_espn_position(espn_position) ==
    IF espn_position \in DOMAIN position_mapping
    THEN position_mapping[espn_position] ELSE "QB"

\* a validation that does not look at the team count
LeagueConfigValidAnyTeamCount(c) ==
    /\ c.league_name # "" /\ Len(c.league_name) <= 100
    /\ c.season_year >= 2000 /\ c.season_year <= 2030
    /\ Has(c.playoff_teams) => (c.playoff_teams[1] >= 2 /\ c.playoff_teams[1] <= 16)

\* LeagueConfig.__post_init__
LeagueConfigValid(c) ==
    /\ c.league_name # "" /\ Len(c.league_name) <= 100
    /\ c.season_year >= 2000 /\ c.season_year <= 2030
    /\ Has(c.team_count) => (c.team_count[1] >= 2 /\ c.team_count[1] <= 32)
    /\ Has(c.playoff_teams) => (c.playoff_teams[1] >= 2 /\ c.playoff_teams[1] <= 16)

\* FantasyTeam.__post_init__
FantasyTeamValid(t) ==
    /\ t.owner_name # "" /\ Len(t.owner_name) <= 100
    /\ t.team_name # "" /\ Len(t.team_name) <= 100
    /\ t.wins >= 0 /\ t.losses >= 0 /\ t.ties >= 0
    /\ t.points_for >= 0 /\ t.points_against >= 0

\* Player.__post_init__
PlayerValid(p) ==
    /\ p.name # "" /\ Len(p.name) <= 100
    /\ Has(p.jersey_number) => (p.jersey_number[1] >= 0 /\ p.jersey_number[1] <= 99)
    /\ Has(p.weight) => (p.weight[1] >= 100 /\ p.weight[1] <= 400)
    /\ Has(p.age) => (p.age[1] >= 18 /\ p.age[1] <= 50)
    /\ Has(p.experience_years) =>
          (p.experience_years[1] >= 0 /\ p.experience_years[1] <= 25)

\* a validation that accepts any score
FantasyMatchupAnyScore(m) ==
    m.week >= 1 /\ m.week <= 21

\* FantasyMatchup.__post_init__
FantasyMatchupValid(m) ==
    /\ m.week >= 1 /\ m.week <= 21
    /\ m.home_score >= 0 /\ m.away_score >= 0

\* reception is kept in halves: 2 is 1.0, 1 is 0.5
determine_scoring_type(espn_league) ==
    IF Has(espn_league.reception) /\ espn_league.reception[1] = 2 THEN "PPR"
    ELSE IF Has(espn_league.reception) /\ espn_league.reception[1] = 1 THEN "Half-PPR"
    ELSE "Standard"

convert_league_config(espn_league, gen) ==
    IF ~Has(espn_league.name) THEN Raise
    ELSE LET c == [id |-> NewId(gen, "league", 0),
                   league_name |-> espn_league.name[1],
                   platform |-> "ESPN",
                   platform_league_id |-> Str(espn_league.league_id),
                   season_year |-> espn_league.year,
                   scoring_type |-> determine_scoring_type(espn_league),
                   team_count |-> <<Len(espn_league.teams)>>,
                   playoff_teams |-> <<GetAttr(espn_league.playoff_team_count, 0)>>]
         IN IF LeagueConfigValid(c) THEN Return(c) ELSE Raise

\* an owner name that is always the text of the first owner record
OwnerNameAsText(espn_team) ==
    IF Has(espn_team.owners) /\ espn_team.owners[1] # <<>>
    THEN espn_team.owners[1][1].text
    ELSE "Unknown Owner"

\* owner name policy of convert_team
OwnerName(espn_team) ==
    IF Has(espn_team.owners) /\ espn_team.owners[1] # <<>>
    THEN LET owner == espn_team.owners[1][1]
         IN IF owner.t = "dict" /\ Has(owner.displayName) THEN owner.displayName[1]
            ELSE owner.text        \* the string itself, or str(owner)
    ELSE "Unknown Owner"

convert_team(espn_team, gen, n) ==
    IF ~Has(espn_team.team_name) THEN Raise
    ELSE LET t == [id |-> NewId(gen, "team", n),
                   owner_name |-> OwnerName(espn_team),
                   team_name |-> espn_team.team_name[1],
                   platform_team_id |-> Str(espn_team.team_id),
                   wins |-> espn_team.wins,
                   losses |-> espn_team.losses,
                   ties |-> espn_team.ties,
                   points_for |-> espn_team.points_for,
                   points_against |-> espn_team.points_against]
         IN IF FantasyTeamValid(t) THEN Return(t) ELSE Raise

\* teams converted from espn_league.teams[from..], failures skipped
RECURSIVE ConvertTeamsFrom(_, _, _)
ConvertTeamsFrom(ts, gen, n) ==
    IF n > Len(ts) THEN <<>>
    ELSE LET r == convert_team(ts[n], gen, n)
         IN (IF r.ok THEN <<r.val>> ELSE <<>>) \o ConvertTeamsFrom(ts, gen, n + 1)

convert_teams(espn_league, gen) == ConvertTeamsFrom(espn_league.teams, gen, 1)

\* a coercion that keeps an integer as it is: int(x)
IntFlagKeepsInt(x) ==
    IF x.t = "int" THEN x.i ELSE IF Truthy(x) THEN 1 ELSE 0

\* 1 if x else 0
IntFlag(x) == IF Truthy(x) THEN 1 ELSE 0

\* the list case taking the last element of the list
InjuryStatusLast(injury_status) ==
    IF injury_status.t = "list"
    THEN (IF injury_status.l = <<>> THEN None
          ELSE <<PyStr(injury_status.l[Len(injury_status.l)])>>)
    ELSE IF injury_status.t = "none" THEN None
    ELSE <<injury_status.s>>

\* injury_status after the isinstance(injury_status, list) branch
InjuryStatus(injury_status) ==
    IF injury_status.t = "list"
    THEN (IF injury_status.l = <<>> THEN None ELSE <<PyStr(injury_status.l[1])>>)
    ELSE IF injury_status.t = "none" THEN None
    ELSE <<injury_status.s>>

convert_player(espn_player, gen, n) ==
    IF \/ ~Has(espn_player.position)
       \/ ~Has(espn_player.name)
       \/ ~Has(espn_player.playerId)
    THEN Raise
    ELSE LET injury_status ==
                 InjuryStatus(GetAttr(espn_player.injuryStatus, PyNone))
             p == [id |-> NewId(gen, "player", n),
                   name |-> espn_player.name[1],
                   position |-> map_espn_position(espn_player.position[1]),
                   espn_id |-> Str(espn_player.playerId[1]),
                   jersey_number |-> Opt(espn_player.jersey),
                   weight |-> Opt(espn_player.weight),
                   age |-> Opt(espn_player.age),
                   experience_years |-> Opt(espn_player.experience),
                   is_injured |-> IntFlag(GetAttr(espn_player.injured, PyBool(FALSE))),
                   injury_status |-> injury_status,
                   is_active |-> IntFlag(GetAttr(espn_player.active, PyBool(TRUE)))]
         IN IF PlayerValid(p) THEN Return(p) ELSE Raise

----------------------------------------------------------------------------
(* Aggregator: src/src/espn.py                                              *)

\* the loop keeping the last object met for an id instead of the first
RECURSIVE CollectPlayersLastWins(_, _)
CollectPlayersLastWins(ps, acc) ==
    IF ps = <<>> THEN [ok |-> TRUE, val |-> acc]
    ELSE IF ~Has(Head(ps).playerId) THEN [ok |-> FALSE, val |-> acc]
    ELSE IF \E q \in SeqToSet(acc) : q.playerId = Head(ps).playerId
         THEN CollectPlayersLastWins(Tail(ps),
                  [k \in DOMAIN acc |-> IF acc[k].playerId = Head(ps).playerId
                                        THEN Head(ps) ELSE acc[k]])
         ELSE CollectPlayersLastWins(Tail(ps), Append(acc, Head(ps)))

\* the loop body shared by both loops of get_all_players, folded over ps;
\* ok is FALSE when str(player.playerId) raised, acc is what was added before
RECURSIVE CollectPlayers(_, _)
CollectPlayers(ps, acc) ==
    IF ps = <<>> THEN [ok |-> TRUE, val |-> acc]
    ELSE IF ~Has(Head(ps).playerId) THEN [ok |-> FALSE, val |-> acc]
    ELSE IF \E q \in SeqToSet(acc) : q.playerId = Head(ps).playerId
         THEN CollectPlayers(Tail(ps), acc)
         ELSE CollectPlayers(Tail(ps), Append(acc, Head(ps)))

RECURSIVE AllRosters(_)
AllRosters(ts) == IF ts = <<>> THEN <<>> ELSE Head(ts).roster \o AllRosters(Tail(ts))

\* get_all_players without the try around the free-agent call
get_all_players_unguarded(espn_league) ==
    LET rostered == CollectPlayers(AllRosters(espn_league.teams), <<>>)
    IN IF ~rostered.ok THEN Raise
       ELSE IF espn_league.free_agents.raises THEN Raise
       ELSE Return(CollectPlayers(espn_league.free_agents.list, rostered.val).val)

get_all_players(espn_league) ==
    LET rostered == CollectPlayers(AllRosters(espn_league.teams), <<>>)
    IN IF ~rostered.ok THEN Raise          \* no try around the roster loop
       ELSE IF espn_league.free_agents.raises THEN Return(rostered.val)
       ELSE Return(CollectPlayers(espn_league.free_agents.list, rostered.val).val)

\* a conversion that remembers the players of earlier runs and skips them
RECURSIVE ConvertPlayersFromCached(_, _, _)
ConvertPlayersFromCached(ps, gen, n) ==
    IF n > Len(ps) \/ gen > 1 THEN <<>>
    ELSE LET r == convert_player(ps[n], gen, n)
         IN (IF r.ok THEN <<r.val>> ELSE <<>>) \o ConvertPlayersFromCached(ps, gen, n + 1)

RECURSIVE ConvertPlayersFrom(_, _, _)
ConvertPlayersFrom(ps, gen, n) ==
    IF n > Len(ps) THEN <<>>
    ELSE LET r == convert_player(ps[n], gen, n)
         IN (IF r.ok THEN <<r.val>> ELSE <<>>) \o ConvertPlayersFrom(ps, gen, n + 1)

convert_players(espn_league, gen) ==
    LET all_espn_players == get_all_players(espn_league)
    IN IF ~all_espn_players.ok THEN Raise
       ELSE Return(ConvertPlayersFrom(all_espn_players.val, gen, 1))

\* {team.platform_team_id: team.id for team in teams}: a later team with
\* the same key replaces an earlier one
RECURSIVE TeamMapping(_)
TeamMapping(teams) ==
    IF teams = <<>> THEN <<>>
    ELSE LET rest == TeamMapping(Tail(teams))
         IN [j \in DOMAIN rest \cup {Head(teams).platform_team_id} |->
                IF j \in DOMAIN rest THEN rest[j] ELSE Head(teams).id]

\* {player.espn_id: player.id for player in players if player.espn_id}
RECURSIVE PlayerMapping(_)
PlayerMapping(players) ==
    IF players = <<>> THEN <<>>
    ELSE LET rest == PlayerMapping(Tail(players))
         IN IF Head(players).espn_id = "" THEN rest
            ELSE [j \in DOMAIN rest \cup {Head(players).espn_id} |->
                     IF j \in DOMAIN rest THEN rest[j] ELSE Head(players).id]

DictGet(m, k) == IF k \in DOMAIN m THEN m[k] ELSE None

\* the roster loop leaving at the first player whose lookup misses
RECURSIVE RosterOfBreak(_, _, _, _, _, _)
RosterOfBreak(roster, fantasy_team_id, player_mapping, gen, ti, pi) ==
    IF pi > Len(roster) THEN Return(<<>>)
    ELSE IF ~Has(roster[pi].playerId) THEN Raise
    ELSE LET player == roster[pi]
             player_id == DictGet(player_mapping, Str(player.playerId[1]))
             rest == RosterOfBreak(roster, fantasy_team_id, player_mapping, gen, ti, pi + 1)
             entry == [id |-> NewId(gen, "entry", 100 * ti + pi),
                       fantasy_team_id |-> fantasy_team_id,
                       player_id |-> player_id,
                       is_starting |-> GetAttr(player.starter, FALSE),
                       acquisition_type |-> GetAttr(player.acquisitionType, "Free Agent")]
         IN IF player_id = None THEN Return(<<>>)
            ELSE IF ~rest.ok THEN Raise
            ELSE Return(<<entry>> \o rest.val)

\* entries of one roster; ok is FALSE when str(player.playerId) raised
RECURSIVE RosterOf(_, _, _, _, _, _)
RosterOf(roster, fantasy_team_id, player_mapping, gen, ti, pi) ==
    IF pi > Len(roster) THEN Return(<<>>)
    ELSE IF ~Has(roster[pi].playerId) THEN Raise
    ELSE LET player == roster[pi]
             player_id == DictGet(player_mapping, Str(player.playerId[1]))
             rest == RosterOf(roster, fantasy_team_id, player_mapping, gen, ti, pi + 1)
             entry == [id |-> NewId(gen, "entry", 100 * ti + pi),
                       fantasy_team_id |-> fantasy_team_id,
                       player_id |-> player_id,
                       is_starting |-> GetAttr(player.starter, FALSE),
                       acquisition_type |-> GetAttr(player.acquisitionType, "Free Agent")]
         IN IF ~rest.ok THEN Raise
            ELSE IF player_id = None THEN rest
            ELSE Return(<<entry>> \o rest.val)

RECURSIVE RosterEntriesFrom(_, _, _, _, _)
RosterEntriesFrom(ts, team_mapping, player_mapping, gen, ti) ==
    IF ti > Len(ts) THEN Return(<<>>)
    ELSE LET fantasy_team_id == DictGet(team_mapping, Str(ts[ti].team_id))
             mine == IF fantasy_team_id = None THEN Return(<<>>)
                     ELSE RosterOf(ts[ti].roster, fantasy_team_id, player_mapping, gen, ti, 1)
             rest == RosterEntriesFrom(ts, team_mapping, player_mapping, gen, ti + 1)
         IN IF mine.ok /\ rest.ok THEN Return(mine.val \o rest.val) ELSE Raise

convert_roster_entries(espn_league, team_mapping, player_mapping, gen) ==
    RosterEntriesFrom(espn_league.teams, team_mapping, player_mapping, gen, 1)

\* convert_matchup without the return None on a missed team lookup
convert_matchup_unchecked(espn_matchup, team_mapping, week, gen, n) ==
    [id |-> NewId(gen, "matchup", 100 * week + n),
     week |-> week,
     home_team_id |-> DictGet(team_mapping, Str(espn_matchup.home_team)),
     away_team_id |-> DictGet(team_mapping, Str(espn_matchup.away_team)),
     home_score |-> espn_matchup.home_score,
     away_score |-> espn_matchup.away_score,
     winner_id |-> None,
     is_playoff |-> GetAttr(espn_matchup.playoff, FALSE)]

\* None when a team lookup misses or anything raises
convert_matchup(espn_matchup, team_mapping, week, gen, n) ==
    LET home_team_id == DictGet(team_mapping, Str(espn_matchup.home_team))
        away_team_id == DictGet(team_mapping, Str(espn_matchup.away_team))
    IN IF home_team_id = None \/ away_team_id = None THEN None
       ELSE IF Has(espn_matchup.winner) /\ espn_matchup.winner[1].t # "team" THEN None
       ELSE LET m == [id |-> NewId(gen, "matchup", 100 * week + n),
                      week |-> week,
                      home_team_id |-> home_team_id,
                      away_team_id |-> away_team_id,
                      home_score |-> espn_matchup.home_score,
                      away_score |-> espn_matchup.away_score,
                      winner_id |-> IF Has(espn_matchup.winner)
                                    THEN DictGet(team_mapping,
                                                 Str(espn_matchup.winner[1].team_id))
                                    ELSE None,
                      is_playoff |-> GetAttr(espn_matchup.playoff, FALSE)]
            IN IF FantasyMatchupValid(m) THEN m ELSE None

RECURSIVE WeekMatchups(_, _, _, _, _)
WeekMatchups(games, team_mapping, week, gen, n) ==
    IF n > Len(games) THEN <<>>
    ELSE LET matchup == convert_matchup(games[n], team_mapping, week, gen, n)
         IN (IF matchup # None THEN <<matchup>> ELSE <<>>)
            \o WeekMatchups(games, team_mapping, week, gen, n + 1)

\* the try encloses the whole loop: the first week that raises ends it
RECURSIVE MatchupsFrom(_, _, _, _)
MatchupsFrom(espn_league, team_mapping, gen, week) ==
    IF week > LastWeek THEN <<>>
    ELSE IF espn_league.scoreboard[week].raises THEN <<>>
    ELSE WeekMatchups(espn_league.scoreboard[week].games, team_mapping, week, gen, 1)
         \o MatchupsFrom(espn_league, team_mapping, gen, week + 1)

convert_matchups(espn_league, team_mapping, gen) ==
    MatchupsFrom(espn_league, team_mapping, gen, 1)

\* fetched: ESPNLeague(league_id, year) returned the league
validate_league_access(fetched, espn_league) ==
    fetched /\ Len(espn_league.teams) > 0

\* get_league_data going on with an empty league config when the conversion fails
get_league_data_without_config(fetched, espn_league, gen) ==
    IF ~fetched THEN Raise
    ELSE LET league_config == convert_league_config(espn_league, gen)
             teams == convert_teams(espn_league, gen)
             players == convert_players(espn_league, gen)
             team_mapping == TeamMapping(teams)
             player_mapping == PlayerMapping(players.val)
             roster_entries ==
                 convert_roster_entries(espn_league, team_mapping, player_mapping, gen)
             matchups == convert_matchups(espn_league, team_mapping, gen)
             no_config == [id |-> NewId(gen, "league", 0), league_name |-> "",
                           platform |-> "ESPN", platform_league_id |-> "",
                           season_year |-> 0, scoring_type |-> "Standard",
                           team_count |-> None, playoff_teams |-> None]
         IN IF ~players.ok THEN Raise
            ELSE IF ~roster_entries.ok THEN Raise
            ELSE Return([league_config |-> IF league_config.ok THEN league_config.val
                                           ELSE no_config,
                         teams |-> teams,
                         players |-> players.val,
                         roster_entries |-> roster_entries.val,
                         matchups |-> matchups])

get_league_data(fetched, espn_league, gen) ==
    IF ~fetched THEN Raise
    ELSE LET league_config == convert_league_config(espn_league, gen)
             teams == convert_teams(espn_league, gen)
             players == convert_players(espn_league, gen)
             team_mapping == TeamMapping(teams)
             player_mapping == PlayerMapping(players.val)
             roster_entries ==
                 convert_roster_entries(espn_league, team_mapping, player_mapping, gen)
             matchups == convert_matchups(espn_league, team_mapping, gen)
         IN IF ~league_config.ok THEN Raise
            ELSE IF ~players.ok THEN Raise
            ELSE IF ~roster_entries.ok THEN Raise
            ELSE Return([league_config |-> league_config.val,
                         teams |-> teams,
                         players |-> players.val,
                         roster_entries |-> roster_entries.val,
                         matchups |-> matchups])

----------------------------------------------------------------------------
(* Source leagues (the object graph espn_api hands over)                    *)

SrcPlayer(pid) ==
    [playerId |-> <<pid>>, name |-> <<"A">>, position |-> <<"QB">>,
     jersey |-> <<>>, weight |-> <<>>, age |-> <<>>, experience |-> <<>>,
     injured |-> <<>>, injuryStatus |-> <<>>, active |-> <<>>,
     starter |-> <<>>, acquisitionType |-> <<>>]

NoName(p) == [p EXCEPT !.name = <<>>]
NoPosition(p) == [p EXCEPT !.position = <<>>]
NoId(p) == [p EXCEPT !.playerId = <<>>]
BadAge(p) == [p EXCEPT !.age = <<17>>]

\* players that convert, and players that do not: one object per source id
GoodPlayers == {SrcPlayer(i) : i \in PlayerIds}
LastId == CHOOSE i \in PlayerIds : \A j \in PlayerIds : j <= i
BadPlayers ==
    { NoName(SrcPlayer(LastId + 1)), NoPosition(SrcPlayer(LastId + 2)),
      BadAge(SrcPlayer(LastId + 3)), NoId(SrcPlayer(LastId + 4)) }

SrcTeam(id, name, wins, roster) ==
    [team_id |-> id, team_name |-> name,
     owners |-> << << [t |-> "dict", displayName |-> <<"Jane Doe">>, text |-> "{}"] >> >>,
     wins |-> wins, losses |-> 5, ties |-> 0,
     points_for |-> 1200, points_against |-> 1150, roster |-> roster]

SrcGame(home, away, hs, as) ==
    [home_team |-> home, away_team |-> away, home_score |-> hs, away_score |-> as,
     winner |-> <<>>, playoff |-> <<>>]

\* scoreboard(week) returns games every week, except that it raises in the
\* weeks of failing
Board(failing, games) ==
    [w \in Weeks |-> [raises |-> w \in failing, games |-> games]]

SrcLeague(name, teams, free_agents, scoreboard) ==
    [name |-> name, league_id |-> 24481082, year |-> 2024,
     playoff_team_count |-> <<6>>, reception |-> <<2>>,
     teams |-> teams, free_agents |-> free_agents, scoreboard |-> scoreboard]

NoFreeAgents == [raises |-> TRUE, list |-> <<>>]

\* the leagues init_espn_data is run on
DriverTeams ==
    { <<>>,
      << SrcTeam(1, <<"Alpha">>, 8, <<SrcPlayer(10)>>), SrcTeam(2, <<"Beta">>, 6, <<>>) >>,
      << SrcTeam(1, <<"Alpha">>, 8, <<SrcPlayer(10), SrcPlayer(11)>>),
         SrcTeam(2, <<>>, 6, <<SrcPlayer(11)>>) >>,
      << SrcTeam(1, <<"Alpha">>, 8, <<NoId(SrcPlayer(10))>>), SrcTeam(2, <<"Beta">>, 6, <<>>) >> }

DriverBoards ==
    { Board({1}, <<>>), Board({2}, <<SrcGame(1, 2, 100, 80)>>) }

\* leagues whose LeagueConfig is outside the validated ranges: a single
\* team, and a season after 2030
OutOfBoundsLeagues ==
    { SrcLeague(<<"League">>, <<SrcTeam(1, <<"Alpha">>, 8, <<SrcPlayer(FirstPlayerId)>>)>>,
                NoFreeAgents, Board({2}, <<SrcGame(1, 1, 100, 80)>>)),
      [SrcLeague(<<"League">>,
                 << SrcTeam(1, <<"Alpha">>, 8, <<SrcPlayer(FirstPlayerId)>>),
                    SrcTeam(2, <<"Beta">>, 6, <<>>) >>,
                 NoFreeAgents, Board({2}, <<SrcGame(1, 2, 100, 80)>>))
          EXCEPT !.year = 2031] }

DriverLeagues ==
    { SrcLeague(nm, ts, NoFreeAgents, b) :
        nm \in {<<"League">>, <<>>}, ts \in DriverTeams, b \in DriverBoards }
    \cup OutOfBoundsLeagues

----------------------------------------------------------------------------
(* Store: the SQLite file and the writer's connection                       *)

Tables == {"league_config", "fantasy_teams", "players", "roster_entries",
           "fantasy_matchups", "roster_positions"}

EmptyStore == [t \in Tables |-> {}]

Closed == [open |-> FALSE, t |-> EmptyStore]

NoSnap == Raise

ConfigRow(c, gen) ==
    [id |-> NewId(gen, "league_db_id", 0), league_name |-> c.league_name,
     platform |-> c.platform, platform_league_id |-> c.platform_league_id,
     season_year |-> c.season_year, scoring_type |-> c.scoring_type,
     team_count |-> c.team_count, playoff_teams |-> c.playoff_teams]

\* a team row under a new id made by the writer instead of the model's id
TeamRowFreshId(t) ==
    [id |-> NewId(0, "team_db_id", t.id[3]), owner_name |-> t.owner_name,
     team_name |-> t.team_name, platform_team_id |-> t.platform_team_id,
     wins |-> t.wins, losses |-> t.losses, ties |-> t.ties,
     points_for |-> t.points_for, points_against |-> t.points_against]

TeamRow(t) ==
    [id |-> t.id, owner_name |-> t.owner_name, team_name |-> t.team_name,
     platform_team_id |-> t.platform_team_id, wins |-> t.wins, losses |-> t.losses,
     ties |-> t.ties, points_for |-> t.points_for, points_against |-> t.points_against]

PlayerRow(p) ==
    [id |-> p.id, name |-> p.name, position |-> p.position, espn_id |-> p.espn_id,
     jersey_number |-> p.jersey_number, weight |-> p.weight, age |-> p.age,
     experience_years |-> p.experience_years,
     is_injured |-> IF p.is_injured # 0 THEN 1 ELSE 0,
     injury_status |-> p.injury_status,
     is_active |-> IF p.is_active # 0 THEN 1 ELSE 0]

EntryRow(e, roster_position_id, gen, n) ==
    [id |-> NewId(gen, "roster_db_id", n), fantasy_team_id |-> e.fantasy_team_id,
     player_id |-> e.player_id, roster_position_id |-> roster_position_id,
     is_starting |-> IF e.is_starting THEN 1 ELSE 0,
     acquisition_type |-> e.acquisition_type]

MatchupRow(m, gen, n) ==
    [id |-> NewId(gen, "matchup_db_id", n), week |-> m.week,
     home_team_id |-> m.home_team_id, away_team_id |-> m.away_team_id,
     home_score |-> m.home_score, away_score |-> m.away_score,
     winner_id |-> m.winner_id, is_playoff |-> IF m.is_playoff THEN 1 ELSE 0]

BenchRow(gen, n) ==
    [id |-> NewId(gen, "roster_position_id", n), position |-> "BN", count |-> 1, is_bench |-> 1]

Stmt(op, table, row, n) == [op |-> op, table |-> table, row |-> row, n |-> n]

\* the delete phase without DELETE FROM players
DeletesKeepPlayers ==
    << Stmt("DELETE", "fantasy_matchups", <<>>, 0),
       Stmt("DELETE", "roster_entries", <<>>, 0),
       Stmt("DELETE", "fantasy_teams", <<>>, 0),
       Stmt("DELETE", "league_config", <<>>, 0) >>

Deletes ==
    << Stmt("DELETE", "fantasy_matchups", <<>>, 0),
       Stmt("DELETE", "roster_entries", <<>>, 0),
       Stmt("DELETE", "players", <<>>, 0),
       Stmt("DELETE", "fantasy_teams", <<>>, 0),
       Stmt("DELETE", "league_config", <<>>, 0) >>

RECURSIVE TeamInserts(_)
TeamInserts(teams) ==
    IF teams = <<>> THEN <<>>
    ELSE <<Stmt("INSERT", "fantasy_teams", TeamRow(Head(teams)), 0)>>
         \o TeamInserts(Tail(teams))

RECURSIVE PlayerInserts(_)
PlayerInserts(players) ==
    IF players = <<>> THEN <<>>
    ELSE <<Stmt("INSERT", "players", PlayerRow(Head(players)), 0)>>
         \o PlayerInserts(Tail(players))

\* per roster entry: the SELECT on roster_positions (with the INSERT of the
\* bench row when it finds none), then the INSERT of the entry
RECURSIVE EntryInserts(_, _)
EntryInserts(roster_entries, n) ==
    IF n > Len(roster_entries) THEN <<>>
    ELSE (IF roster_entries[n].fantasy_team_id # None /\ roster_entries[n].player_id # None
          THEN << Stmt("SELECT", "roster_positions", <<>>, n),
                  Stmt("INSERT", "roster_entries", roster_entries[n], n) >>
          ELSE <<>>)
         \o EntryInserts(roster_entries, n + 1)

RECURSIVE MatchupInserts(_, _, _)
MatchupInserts(matchups, gen, n) ==
    IF n > Len(matchups) THEN <<>>
    ELSE (IF matchups[n].home_team_id # None /\ matchups[n].away_team_id # None
          THEN <<Stmt("INSERT", "fantasy_matchups", MatchupRow(matchups[n], gen, n), n)>>
          ELSE <<>>)
         \o MatchupInserts(matchups, gen, n + 1)

\* the with-block inserting the roster entries before the teams and players
ScriptEntriesFirst(s, gen) ==
    Deletes
    \o <<Stmt("INSERT", "league_config", ConfigRow(s.league_config, gen), 0)>>
    \o EntryInserts(s.roster_entries, 1)
    \o TeamInserts(s.teams)
    \o PlayerInserts(s.players)
    \o MatchupInserts(s.matchups, gen, 1)

\* the statements of the with-block of init_espn_data, in program order
Script(s, gen) ==
    Deletes
    \o <<Stmt("INSERT", "league_config", ConfigRow(s.league_config, gen), 0)>>
    \o TeamInserts(s.teams)
    \o PlayerInserts(s.players)
    \o EntryInserts(s.roster_entries, 1)
    \o MatchupInserts(s.matchups, gen, 1)

\* a lookup by position value that never finds a row
HasBenchNever(t) == FALSE

\* cursor.fetchone() of SELECT id FROM roster_positions WHERE position = 'BN'
HasBench(t) == \E r \in t["roster_positions"] : r.position = "BN"
BenchId(t) == (CHOOSE r \in t["roster_positions"] : r.position = "BN").id

\* conn.execute(statement) on the connection's view t
Execute(t, st, gen) ==
    IF st.op = "DELETE" THEN [t EXCEPT ![st.table] = {}]
    ELSE IF st.op = "SELECT"
    THEN (IF HasBench(t) THEN t
          ELSE [t EXCEPT !["roster_positions"] = @ \cup {BenchRow(gen, st.n)}])
    ELSE IF st.table = "roster_entries"
    THEN [t EXCEPT ![st.table] = @ \cup {EntryRow(st.row, BenchId(t), gen, st.n)}]
    ELSE [t EXCEPT ![st.table] = @ \cup {st.row}]

\* what the statement adds to the log of executed statements
Logged(t, st) ==
    IF st.op = "SELECT" /\ ~HasBench(t)
    THEN << <<"SELECT", st.table>>, <<"INSERT", st.table>> >>
    ELSE << <<st.op, st.table>> >>

\* conn.commit(): the connection's view becomes the file's contents
CommitTx(file, view) == view

\* a close that commits the open transaction
CloseTxCommits(file, view) == view

\* conn.close() with an open transaction: the file keeps its contents
CloseTx(file, view) == file

\* a reader that sees the writer's uncommitted statements
ReadStoreDirty(file, view) == view

\* execute_query on a connection of its own: the committed contents
ReadStore(file, view) == file

----------------------------------------------------------------------------
(* init_espn_data, statement by statement, and a concurrent reader          *)

\* the contents a complete write of snapshot s over file leaves
NewStore(file, s, gen) ==
    LET bench == IF HasBench(file) \/ s.roster_entries = <<>>
                 THEN file["roster_positions"]
                 ELSE file["roster_positions"] \cup {BenchRow(gen, 1)}
        bench_id == (CHOOSE r \in bench : r.position = "BN").id
    IN [t \in Tables |->
          CASE t = "league_config" -> {ConfigRow(s.league_config, gen)}
            [] t = "fantasy_teams" -> {TeamRow(x) : x \in SeqToSet(s.teams)}
            [] t = "players" -> {PlayerRow(x) : x \in SeqToSet(s.players)}
            [] t = "roster_entries" ->
                 {EntryRow(s.roster_entries[n], bench_id, gen, n) :
                     n \in 1..Len(s.roster_entries)}
            [] t = "fantasy_matchups" ->
                 {MatchupRow(s.matchups[n], gen, n) : n \in 1..Len(s.matchups)}
            [] OTHER -> bench]

DriverInit ==
    /\ league = SrcLeague(<<>>, <<>>, NoFreeAgents, Board({1}, <<>>))
    /\ envOk = TRUE
    /\ pc = "idle"
    /\ ip = 1
    /\ run = 0
    /\ valid = "none"
    /\ snap = NoSnap
    /\ ret = "none"
    /\ db = EmptyStore
    /\ tx = Closed
    /\ pre = EmptyStore
    /\ stmts = <<>>
    /\ seen = [store |-> EmptyStore, pre |-> EmptyStore, new |-> EmptyStore,
               phase |-> "idle", at |-> 0]

driverVars == <<league, envOk, pc, ip, run, valid, snap, ret, db, tx, pre, stmts, seen>>

Init ==
    /\ DriverInit
    /\ arg = <<>>
    /\ out = <<>>

\* a caller invokes init_espn_data()
Call ==
    /\ pc \in {"idle", "done"}
    /\ run < MaxRuns
    /\ \E l \in DriverLeagues, e \in BOOLEAN :
          /\ league' = l
          /\ envOk' = e
    /\ run' = run + 1
    /\ pc' = "env"
    /\ ip' = 1
    /\ valid' = "none"
    /\ snap' = NoSnap
    /\ ret' = "none"
    /\ pre' = db
    /\ stmts' = <<>>
    /\ UNCHANGED <<db, tx, seen, arg, out>>

\* league_id, year = get_league_config_from_env(): int() outside any try
ReadEnv ==
    /\ pc = "env"
    /\ IF envOk THEN pc' = "validate" /\ ret' = ret
       ELSE pc' = "done" /\ ret' = "raised"
    /\ UNCHANGED <<league, envOk, ip, run, valid, snap, db, tx, pre, stmts, seen, arg, out>>

\* if not validate_league_access(league_id, year): return False
Validate ==
    /\ pc = "validate"
    /\ \E fetched \in BOOLEAN :
          IF validate_league_access(fetched, league)
          THEN pc' = "fetch" /\ ret' = ret /\ valid' = "True"
          ELSE pc' = "done" /\ ret' = "False" /\ valid' = "False"
    /\ UNCHANGED <<league, envOk, ip, run, snap, db, tx, pre, stmts, seen, arg, out>>

\* get_league_data(league_id, year), then with get_db_connection() as conn
GetData ==
    /\ pc = "fetch"
    /\ \E fetched \in BOOLEAN, connected \in BOOLEAN :
          /\ snap' = get_league_data(fetched, league, run)
          /\ IF snap'.ok /\ connected
             THEN pc' = "write" /\ ret' = ret /\ tx' = [open |-> TRUE, t |-> db]
             ELSE pc' = "done" /\ ret' = "False" /\ tx' = tx
    /\ UNCHANGED <<league, envOk, ip, run, valid, db, pre, stmts, seen, arg, out>>

\* the next conn.execute of the with-block; when it raises, the with-block
\* closes the connection and the except clause returns False
ExecStmt ==
    /\ pc = "write"
    /\ ip <= Len(Script(snap.val, run))
    /\ \E raises \in BOOLEAN :
          IF raises
          THEN /\ db' = CloseTx(db, tx.t)
               /\ tx' = Closed
               /\ pc' = "done"
               /\ ret' = "False"
               /\ UNCHANGED <<ip, stmts>>
          ELSE LET st == Script(snap.val, run)[ip]
               IN /\ tx' = [tx EXCEPT !.t = Execute(tx.t, st, run)]
                  /\ stmts' = stmts \o Logged(tx.t, st)
                  /\ ip' = ip + 1
                  /\ UNCHANGED <<db, pc, ret>>
    /\ UNCHANGED <<league, envOk, run, valid, snap, pre, seen, arg, out>>

\* conn.commit(); return True
Commit ==
    /\ pc = "write"
    /\ ip > Len(Script(snap.val, run))
    /\ \E raises \in BOOLEAN :
          IF raises
          THEN db' = CloseTx(db, tx.t) /\ ret' = "False" /\ stmts' = stmts
          ELSE db' = CommitTx(db, tx.t) /\ ret' = "True"
               /\ stmts' = Append(stmts, <<"COMMIT", "">>)
    /\ tx' = Closed
    /\ pc' = "done"
    /\ UNCHANGED <<league, envOk, ip, run, valid, snap, pre, seen, arg, out>>

\* execute_query from an HTTP handler, on its own connection
Read ==
    /\ seen' = [store |-> ReadStore(db, tx.t),
                pre |-> pre,
                new |-> IF snap.ok THEN NewStore(pre, snap.val, run) ELSE pre,
                phase |-> pc,
                at |-> Len(stmts)]
    /\ UNCHANGED <<league, envOk, pc, ip, run, valid, snap, ret, db, tx, pre, stmts,
                   arg, out>>

Next == Call \/ ReadEnv \/ Validate \/ GetData \/ ExecStmt \/ Commit \/ Read

Spec == Init /\ [][Next]_vars

----------------------------------------------------------------------------
(* Properties of the store writer                                           *)

SnapshotTables == Tables \ {"roster_positions"}

Executed(op, table) == \E i \in 1..Len(stmts) : stmts[i] = <<op, table>>

\* C1: when init_espn_data reports failure, whatever statement of the write
\* phase raised, the committed league_config, fantasy_teams, players,
\* roster_entries and fantasy_matchups are what they were before the call.
C1_FailedWriteLeavesStore ==
    ret = "False" => \A t \in SnapshotTables : db[t] = pre[t]

\* a write over a previous snapshot that raised after the deletes and some
\* of the inserts
C1_Witness ==
    /\ pc = "done" /\ ret = "False"
    /\ Executed("DELETE", "league_config") /\ Executed("INSERT", "players")
    /\ pre["players"] # {}

\* C2: whenever a reader queries the store, before, during or after a write,
\* it sees the contents from before the write or the complete new snapshot.
C2_ReaderSeesOldOrNew ==
    seen.store = seen.pre \/ seen.store = seen.new

\* a read taken while the writer had deleted a previous snapshot and
\* inserted part of the new one
C2_Witness ==
    /\ seen.phase = "write" /\ seen.at > Len(Deletes) + 1
    /\ seen.pre["fantasy_teams"] # {} /\ seen.store = seen.pre

\* C3: after a successful persist the five tables hold exactly the rows of
\* the snapshot just written, one row per element, and no row of the
\* contents it replaced.
C3_SecondPersistReplaces ==
    (pc = "done" /\ ret = "True") =>
        /\ \A t \in SnapshotTables :
              /\ db[t] = NewStore(pre, snap.val, run)[t]
              /\ db[t] \cap pre[t] = {}
        /\ Cardinality(db["league_config"]) = 1
        /\ Cardinality(db["fantasy_teams"]) = Len(snap.val.teams)
        /\ Cardinality(db["players"]) = Len(snap.val.players)
        /\ Cardinality(db["roster_entries"]) = Len(snap.val.roster_entries)
        /\ Cardinality(db["fantasy_matchups"]) = Len(snap.val.matchups)

\* a second successful persist over a committed first one
C3_Witness ==
    /\ pc = "done" /\ ret = "True"
    /\ pre["players"] # {} /\ pre["roster_entries"] # {}
    /\ db["roster_entries"] # {} /\ db["fantasy_matchups"] # {}

\* C4: when league access validation fails or the league config does not
\* convert, get_league_data returns no snapshot and init_espn_data executes
\* no statement: the store is unchanged and the call returns False.
C4_NoWriteWithoutConfig ==
    (valid = "False" \/ (pc # "idle" /\ ~convert_league_config(league, run).ok)) =>
        /\ ~snap.ok
        /\ stmts = <<>> /\ ~tx.open /\ db = pre
        /\ (pc = "done" /\ envOk) => ret = "False"

\* the config fails to convert in a league whose teams and players convert,
\* over a store that holds a snapshot
C4_Witness ==
    /\ pc = "done" /\ ret = "False" /\ valid = "True"
    /\ ~convert_league_config(league, run).ok
    /\ convert_teams(league, run) # <<>> /\ convert_players(league, run).ok
    /\ pre["fantasy_teams"] # {}

\* C5: init_espn_data lets no exception escape, and returns True only after
\* the commit.
C5_NoExceptionEscapes ==
    /\ ret # "raised"
    /\ ret = "True" => Executed("COMMIT", "")

----------------------------------------------------------------------------
(* The aggregator as a function: get_league_data on a source league         *)

TeamShapes ==
    { [name |-> <<"Alpha">>, wins |-> 8],
      [name |-> <<>>, wins |-> 8],           \* no team name
      [name |-> <<"Alpha">>, wins |-> -1] }  \* negative record value

AggFreeAgents ==
    { NoFreeAgents,
      [raises |-> FALSE, list |-> <<>>],
      [raises |-> FALSE, list |-> <<SrcPlayer(FirstPlayerId), NoId(SrcPlayer(LastId + 4))>>] }

\* scoreboard entries that cannot become a matchup: a negative score, and
\* an away team that is not in the league; and an entry whose winner is not
\* in the league
OddGames ==
    << SrcGame(1, 2, 100, 80), SrcGame(2, 1, -5, 95), SrcGame(1, 3, 90, 95),
       [SrcGame(2, 1, 70, 60) EXCEPT !.winner = <<[t |-> "team", team_id |-> 3]>>] >>

AggBoards ==
    { Board({}, <<SrcGame(1, 2, 100, 80)>>), Board({2}, <<SrcGame(1, 2, 100, 80)>>),
      Board({}, OddGames) }

AggLeagues ==
    { SrcLeague(nm,
                << SrcTeam(1, s1.name, s1.wins, r1), SrcTeam(2, s2.name, s2.wins, r2) >>,
                fa, b) :
        nm \in {<<"League">>, <<>>},
        s1 \in TeamShapes, s2 \in TeamShapes,
        r1 \in SeqsUpTo(GoodPlayers \cup BadPlayers, MaxRoster),
        r2 \in {<<>>, <<SrcPlayer(FirstPlayerId)>>},
        fa \in AggFreeAgents, b \in AggBoards }

NotRun == [done |-> FALSE, fetched |-> FALSE, res |-> Raise]

InitAgg ==
    /\ DriverInit
    /\ arg \in AggLeagues
    /\ out = NotRun

\* get_league_data(league_id, year) on the league arg
RunGetLeagueData ==
    /\ ~out.done
    /\ \E fetched \in BOOLEAN :
          out' = [done |-> TRUE, fetched |-> fetched,
                  res |-> get_league_data(fetched, arg, 1)]
    /\ UNCHANGED <<arg, driverVars>>

NextAgg == RunGetLeagueData

SpecAgg == InitAgg /\ [][NextAgg]_vars

Reached == out.done /\ out.fetched /\ convert_league_config(arg, 1).ok

SourcePlayers(l) ==
    SeqToSet(AllRosters(l.teams))
    \cup (IF l.free_agents.raises THEN {} ELSE SeqToSet(l.free_agents.list))

Convertible(p) == convert_player(p, 1, 1).ok

FailedTeams(l) == {i \in 1..Len(l.teams) : ~convert_team(l.teams[i], 1, i).ok}

\* C6: once the league is fetched and its config converts, get_league_data
\* returns a snapshot, whatever fails below the league level.
C6_AlwaysSnapshot ==
    Reached => out.res.ok

\* C7: when exactly one source team fails conversion (every rostered player
\* exposing an id), the run succeeds, the snapshot holds the other teams and
\* not the failed one, and every roster entry and matchup refers to a team
\* of the snapshot.
C7_FailedTeamSkipped ==
    (/\ Reached
     /\ Cardinality(FailedTeams(arg)) = 1
     /\ \A p \in SeqToSet(AllRosters(arg.teams)) : Has(p.playerId)) =>
        /\ out.res.ok
        /\ LET s == out.res.val
               team_ids == {t.id : t \in SeqToSet(s.teams)}
           IN /\ Len(s.teams) = Len(arg.teams) - 1
              /\ {t.platform_team_id : t \in SeqToSet(s.teams)}
                   = {Str(arg.teams[i].team_id) :
                         i \in (1..Len(arg.teams)) \ FailedTeams(arg)}
              /\ \A e \in SeqToSet(s.roster_entries) : e.fantasy_team_id \in team_ids
              /\ \A m \in SeqToSet(s.matchups) :
                    /\ m.home_team_id \in team_ids
                    /\ m.away_team_id \in team_ids
                    /\ m.winner_id \in team_ids \cup {None}

\* team 1 fails with players on its roster and a game on the scoreboard;
\* team 2's roster entry is all that is left
C7_Witness ==
    /\ Reached /\ out.res.ok
    /\ FailedTeams(arg) = {1}
    /\ arg.teams[1].roster # <<>>
    /\ arg.scoreboard[1].games # <<>> /\ ~arg.scoreboard[1].raises
    /\ Len(out.res.val.teams) = 1
    /\ Len(out.res.val.roster_entries) = 1
    /\ out.res.val.matchups = <<>>

\* C8: when a source player fails conversion, the run succeeds and the
\* snapshot holds exactly the players that convert, and roster entries for
\* those only.
C8_FailedPlayerSkipped ==
    (Reached /\ \E p \in SourcePlayers(arg) : ~Convertible(p)) =>
        /\ out.res.ok
        /\ {q.espn_id : q \in SeqToSet(out.res.val.players)}
             = {Str(p.playerId[1]) : p \in {x \in SourcePlayers(arg) : Convertible(x)}}
        /\ \A e \in SeqToSet(out.res.val.roster_entries) :
              e.player_id \in {q.id : q \in SeqToSet(out.res.val.players)}

\* C13: in every snapshot get_league_data returns, each player is referenced
\* by the roster entries of at most one fantasy team, also when the source
\* lists the same player id on the rosters of two teams.
C13_PlayerOnOneTeam ==
    (out.done /\ out.res.ok) =>
        \A e1, e2 \in SeqToSet(out.res.val.roster_entries) :
            e1.player_id = e2.player_id => e1.fantasy_team_id = e2.fantasy_team_id

\* C27: in every snapshot get_league_data returns, each roster entry's team
\* and player id, and each matchup's home, away and (when present) winner
\* id, is the id of a team or player of the same snapshot, and every matchup
\* has its week in 1..21 and non-negative scores; what the scoreboard holds
\* does not decide whether the run returns a snapshot.
C27_SnapshotReferencesResolve ==
    /\ (out.done /\ out.res.ok) =>
          LET s == out.res.val
              team_ids == {t.id : t \in SeqToSet(s.teams)}
              player_ids == {q.id : q \in SeqToSet(s.players)}
          IN /\ \A e \in SeqToSet(s.roster_entries) :
                   e.fantasy_team_id \in team_ids /\ e.player_id \in player_ids
             /\ \A m \in SeqToSet(s.matchups) :
                   /\ m.home_team_id \in team_ids /\ m.away_team_id \in team_ids
                   /\ m.winner_id = None \/ m.winner_id \in team_ids
                   /\ m.week >= 1 /\ m.week <= 21
                   /\ m.home_score >= 0 /\ m.away_score >= 0
    /\ (out.done /\ out.fetched) =>
          out.res.ok = get_league_data(TRUE, [arg EXCEPT !.scoreboard = Board({}, <<>>)], 1).ok

\* a scoreboard with a negative score, an unknown away team and an unknown
\* winner: the snapshot keeps the two entries that convert, one of them
\* without winner
C27_Witness ==
    /\ out.done /\ out.res.ok
    /\ arg.scoreboard[1].games = OddGames
    /\ Len(out.res.val.teams) = 2
    /\ Len(out.res.val.roster_entries) > 0
    /\ Cardinality({m \in SeqToSet(out.res.val.matchups) : m.week = 1}) = 2
    /\ \A m \in SeqToSet(out.res.val.matchups) : m.winner_id = None

----------------------------------------------------------------------------
(* convert_matchups as a function of the scoreboard and the team map        *)

TeamMapOver(S) ==
    [k \in {Str(i) : i \in S} |-> NewId(1, "team", CHOOSE i \in S : Str(i) = k)]

PlayerMapOver(S) ==
    [k \in {Str(i) : i \in S} |-> NewId(1, "player", CHOOSE i \in S : Str(i) = k)]

FailingWeeks == {{}} \cup {{w} : w \in Weeks}

GameLists ==
    { <<>>,
      <<SrcGame(1, 2, 100, 80)>>,
      <<SrcGame(1, 2, 100, 80), SrcGame(2, 1, 90, 95)>> }

MatchupArgs ==
    { [league |-> SrcLeague(<<"League">>, <<>>, NoFreeAgents, Board(F, g)),
       team_mapping |-> TeamMapOver(S)] :
        F \in FailingWeeks, g \in GameLists, S \in {TeamIds, {1}} }

InitMatchups ==
    /\ DriverInit
    /\ arg \in MatchupArgs
    /\ out = NotRun

\* convert_matchups(espn_league, team_mapping)
RunConvertMatchups ==
    /\ ~out.done
    /\ out' = [done |-> TRUE, fetched |-> TRUE,
               res |-> Return(convert_matchups(arg.league, arg.team_mapping, 1))]
    /\ UNCHANGED <<arg, driverVars>>

NextMatchups == RunConvertMatchups

SpecMatchups == InitMatchups /\ [][NextMatchups]_vars

\* C9: a week whose scoreboard call raises is the only week skipped: the
\* result holds the matchups of every week whose call returned, those after
\* the failing week included.
C9_OnlyFailedWeekSkipped ==
    out.done =>
        \A w \in Weeks :
            ~arg.league.scoreboard[w].raises =>
                {m \in SeqToSet(out.res.val) : m.week = w}
                  = SeqToSet(WeekMatchups(arg.league.scoreboard[w].games,
                                          arg.team_mapping, w, 1, 1))

----------------------------------------------------------------------------
(* convert_roster_entries as a function of the rosters and the two maps     *)

RosterArgs ==
    { [league |-> SrcLeague(<<"League">>,
                            << SrcTeam(1, <<"Alpha">>, 8, r1), SrcTeam(2, <<"Beta">>, 6, r2) >>,
                            NoFreeAgents, Board({1}, <<>>)),
       team_mapping |-> TeamMapOver(T),
       player_mapping |-> PlayerMapOver(P)] :
        r1 \in SeqsUpTo(GoodPlayers, MaxRoster), r2 \in SeqsUpTo(GoodPlayers, MaxRoster),
        T \in SUBSET TeamIds, P \in SUBSET PlayerIds }

InitRoster ==
    /\ DriverInit
    /\ arg \in RosterArgs
    /\ out = NotRun

\* convert_roster_entries(espn_league, team_mapping, player_mapping)
RunConvertRosterEntries ==
    /\ ~out.done
    /\ out' = [done |-> TRUE, fetched |-> TRUE,
               res |-> convert_roster_entries(arg.league, arg.team_mapping,
                                              arg.player_mapping, 1)]
    /\ UNCHANGED <<arg, driverVars>>

NextRoster == RunConvertRosterEntries

SpecRoster == InitRoster /\ [][NextRoster]_vars

\* the (team, player) pairings of the source rosters, by position
Pairings(l) ==
    {<<ti, pi>> \in (1..Len(l.teams)) \X (1..MaxRoster + 1) : pi <= Len(l.teams[ti].roster)}

InBothMaps(a, pr) ==
    /\ Str(a.league.teams[pr[1]].team_id) \in DOMAIN a.team_mapping
    /\ Str(a.league.teams[pr[1]].roster[pr[2]].playerId[1]) \in DOMAIN a.player_mapping

\* C10: convert_roster_entries raises nothing and returns one entry for a
\* pairing exactly when the team's source id is in the team map and the
\* player's source id is in the player map, carrying the two mapped ids; a
\* pairing with a missing lookup yields none and stops no other pairing.
C10_EntryIffBothMapped ==
    out.done =>
        /\ out.res.ok
        /\ Len(out.res.val) = Cardinality({pr \in Pairings(arg.league) : InBothMaps(arg, pr)})
        /\ \A pr \in Pairings(arg.league) :
              LET hits == {e \in SeqToSet(out.res.val) :
                              e.id = NewId(1, "entry", 100 * pr[1] + pr[2])}
              IN IF InBothMaps(arg, pr)
                 THEN \E e \in hits :
                         /\ hits = {e}
                         /\ e.fantasy_team_id
                              = arg.team_mapping[Str(arg.league.teams[pr[1]].team_id)]
                         /\ e.player_id
                              = arg.player_mapping[
                                  Str(arg.league.teams[pr[1]].roster[pr[2]].playerId[1])]
                 ELSE hits = {}

\* team 1 is not in the team map; on team 2's roster the first player is not
\* in the player map and the second is: one entry, for the second
C10_Witness ==
    /\ out.done /\ out.res.ok
    /\ DOMAIN arg.team_mapping = {"2"}
    /\ arg.league.teams[1].roster # <<>>
    /\ Len(arg.league.teams[2].roster) = 2
    /\ ~InBothMaps(arg, <<2, 1>>) /\ InBothMaps(arg, <<2, 2>>)
    /\ Len(out.res.val) = 1

----------------------------------------------------------------------------
(* get_all_players as a function of the rosters and the free-agent list     *)

Named(p, nm) == [p EXCEPT !.name = <<nm>>]

\* two objects per source id, told apart by their name
PlayerObjects == {Named(SrcPlayer(i), nm) : i \in PlayerIds, nm \in {"A", "B"}}

SecondRosters ==
    { <<>>,
      <<Named(SrcPlayer(FirstPlayerId), "B")>>,
      <<Named(SrcPlayer(LastId), "A"), Named(SrcPlayer(FirstPlayerId), "B")>> }

\* NoFreeAgents: the league has no free_agents attribute, or the call raises
PlayersFreeAgents ==
    { NoFreeAgents,
      [raises |-> FALSE, list |-> <<>>],
      [raises |-> FALSE, list |-> <<Named(SrcPlayer(FirstPlayerId), "B")>>],
      [raises |-> FALSE,
       list |-> <<Named(SrcPlayer(LastId), "B"), Named(SrcPlayer(LastId), "A")>>] }

PlayersArgs ==
    { SrcLeague(<<"League">>,
                << SrcTeam(1, <<"Alpha">>, 8, r1), SrcTeam(2, <<"Beta">>, 6, r2) >>,
                fa, Board({1}, <<>>)) :
        r1 \in SeqsUpTo(PlayerObjects, MaxRoster), r2 \in SecondRosters,
        fa \in PlayersFreeAgents }

InitPlayers ==
    /\ DriverInit
    /\ arg \in PlayersArgs
    /\ out = NotRun

\* get_all_players(espn_league)
RunGetAllPlayers ==
    /\ ~out.done
    /\ out' = [done |-> TRUE, fetched |-> TRUE, res |-> get_all_players(arg)]
    /\ UNCHANGED <<arg, driverVars>>

NextPlayers == RunGetAllPlayers

SpecPlayers == InitPlayers /\ [][NextPlayers]_vars

\* the source players in the order get_all_players meets them
Walked(l) ==
    AllRosters(l.teams) \o (IF l.free_agents.raises THEN <<>> ELSE l.free_agents.list)

FirstOccurrence(s, i) == \A j \in 1..(i - 1) : s[j].playerId # s[i].playerId

C12_NoFreeAgentsRostersOnly ==
    (out.done /\ arg.free_agents.raises) =>
        /\ out.res.ok
        /\ LET rostered == AllRosters(arg.teams)
               firsts == {i \in 1..Len(rostered) : FirstOccurrence(rostered, i)}
               res == out.res.val
           IN /\ Len(res) = Cardinality(firsts)
              /\ \A i \in firsts : \E k \in 1..Len(res) : res[k] = rostered[i]
              /\ \A k, m \in 1..Len(res) :
                    k < m => \E i, j \in firsts :
                                i < j /\ rostered[i] = res[k] /\ rostered[j] = res[m]

\* no free agents, rosters with a repeated id
C12_Witness ==
    /\ out.done /\ out.res.ok /\ arg.free_agents.raises
    /\ Len(AllRosters(arg.teams)) = 3
    /\ Len(out.res.val) = 2

----------------------------------------------------------------------------
(* get_league_data run repeatedly on one unchanged source league            *)

RepeatLeagues ==
    { SrcLeague(<<"League">>,
                << SrcTeam(1, s1.name, s1.wins, r1), SrcTeam(2, s2.name, s2.wins, r2) >>,
                fa, b) :
        s1 \in TeamShapes, s2 \in TeamShapes,
        r1 \in SeqsUpTo(GoodPlayers \cup BadPlayers, MaxRoster),
        r2 \in {<<>>, <<SrcPlayer(FirstPlayerId)>>},
        fa \in AggFreeAgents, b \in AggBoards }

InitRepeat ==
    /\ DriverInit
    /\ arg \in RepeatLeagues
    /\ out = <<>>

\* one more get_league_data(league_id, year); the source answers as before
RunAgain ==
    /\ Len(out) < MaxRuns
    /\ out' = Append(out, get_league_data(TRUE, arg, Len(out) + 1))
    /\ UNCHANGED <<arg, driverVars>>

NextRepeat == RunAgain

SpecRepeat == InitRepeat /\ [][NextRepeat]_vars

\* a snapshot without its generated ids: rows by source id, and the roster
\* entries and matchups as relations between source ids
SourceIdOfTeam(s, id) ==
    IF id = None THEN None
    ELSE <<(CHOOSE t \in SeqToSet(s.teams) : t.id = id).platform_team_id>>

SourceIdOfPlayer(s, id) == (CHOOSE q \in SeqToSet(s.players) : q.id = id).espn_id

SnapshotView(s) ==
    [league_config |-> [s.league_config EXCEPT !.id = None],
     teams |-> {[t EXCEPT !.id = None] : t \in SeqToSet(s.teams)},
     players |-> {[q EXCEPT !.id = None] : q \in SeqToSet(s.players)},
     roster_entries |->
        {[e EXCEPT !.id = None,
                   !.fantasy_team_id = SourceIdOfTeam(s, e.fantasy_team_id),
                   !.player_id = SourceIdOfPlayer(s, e.player_id)] :
            e \in SeqToSet(s.roster_entries)},
     matchups |->
        {[m EXCEPT !.id = None,
                   !.home_team_id = SourceIdOfTeam(s, m.home_team_id),
                   !.away_team_id = SourceIdOfTeam(s, m.away_team_id),
                   !.winner_id = SourceIdOfTeam(s, m.winner_id)] :
            m \in SeqToSet(s.matchups)}]

----------------------------------------------------------------------------
(* The normalizer as functions: convert_team, convert_player and            *)
(* convert_matchup on one source object                                     *)

Owner(t, displayName, text) == [t |-> t, displayName |-> displayName, text |-> text]

JaneDoe == Owner("dict", <<"Jane Doe">>, "{'displayName': 'Jane Doe'}")
Nameless == Owner("dict", <<"">>, "{'displayName': ''}")
NoDisplayName == Owner("dict", <<>>, "{'firstName': 'Jane'}")
BobString == Owner("str", <<>>, "Bob")
OwnerObject == Owner("object", <<>>, "<Owner object>")

\* owners: the attribute absent, the empty list, and lists by first record
OwnerLists ==
    { <<>>, << <<>> >>,
      << <<JaneDoe>> >>, << <<Nameless>> >>, << <<NoDisplayName>> >>,
      << <<BobString>> >>, << <<OwnerObject>> >>,
      << <<JaneDoe, BobString>> >>, << <<BobString, JaneDoe>> >>,
      << <<NoDisplayName, JaneDoe>> >> }

TeamArgs ==
    { [kind |-> "team",
       obj |-> [SrcTeam(id, sh.name, sh.wins, <<>>) EXCEPT !.owners = o]] :
        id \in TeamIds, sh \in TeamShapes, o \in OwnerLists }

PositionCodes == DOMAIN position_mapping \cup {"D/ST", "qb", ""}

Flags ==
    { <<>>, <<PyBool(TRUE)>>, <<PyBool(FALSE)>>, <<PyNone>>,
      <<PyInt(0)>>, <<PyInt(2)>>, <<PyText("")>>,
      <<PyText("yes")>> }

ActiveFlags == { <<>>, <<PyBool(FALSE)>>, <<PyNone>>, <<PyInt(2)>> }

InjuryStatuses ==
    { <<>>, <<PyNone>>, <<PyText("QUESTIONABLE")>>,
      <<PyList(<<>>)>>,
      <<PyList(<<PyText("OUT")>>)>>,
      <<PyList(<<PyText("OUT"), PyText("DOUBTFUL")>>)>>,
      <<PyList(<<PyInt(7)>>)>> }

PlayerArgs ==
    { [kind |-> "player",
       obj |-> [SrcPlayer(FirstPlayerId) EXCEPT !.position = pos, !.injured = inj,
                                             !.active = act, !.injuryStatus = st,
                                             !.age = ag]] :
        pos \in {<<c>> : c \in PositionCodes} \cup {<<>>},
        inj \in Flags, act \in ActiveFlags, st \in InjuryStatuses,
        ag \in {<<>>, <<17>>} }

Winner(team_id) == [t |-> "team", team_id |-> team_id]
WinnerNone == [t |-> "none", team_id |-> 0]

MatchupArgsOne ==
    { [kind |-> "matchup",
       obj |-> [SrcGame(h, a, hs, as) EXCEPT !.winner = w, !.playoff = po],
       team_mapping |-> TeamMapOver(S),
       week |-> wk] :
        h \in TeamIds, a \in TeamIds, hs \in {80, 100}, as \in {80, 100},
        w \in {<<>>, <<Winner(1)>>, <<Winner(2)>>, <<WinnerNone>>},
        po \in {<<>>, <<TRUE>>}, S \in {TeamIds, {1}}, wk \in {1, LastWeek} }

\* leagues by what their settings expose: name, playoff_team_count and
\* scoring_settings.reception each present or absent, plus the season year
\* and the number of teams
LeagueArgs ==
    { [kind |-> "league",
       obj |-> [SrcLeague(nm, [i \in 1..n |-> SrcTeam(i, <<"Alpha">>, 8, <<>>)],
                          NoFreeAgents, Board({1}, <<>>))
                   EXCEPT !.year = y, !.playoff_team_count = po, !.reception = rc]] :
        nm \in {<<"League">>, <<"">>, <<>>}, n \in {1, 2, 3},
        y \in {1999, 2024, 2030, 2031}, po \in {<<>>, <<1>>, <<6>>, <<17>>},
        rc \in {<<>>, <<1>>, <<2>>} }

InitConvert ==
    /\ DriverInit
    /\ arg \in TeamArgs \cup PlayerArgs \cup MatchupArgsOne \cup LeagueArgs
    /\ out = NotRun

\* convert_team(espn_team)
RunConvertTeam ==
    /\ ~out.done /\ arg.kind = "team"
    /\ out' = [done |-> TRUE, fetched |-> TRUE, res |-> convert_team(arg.obj, 1, 1)]
    /\ UNCHANGED <<arg, driverVars>>

\* convert_player(espn_player)
RunConvertPlayer ==
    /\ ~out.done /\ arg.kind = "player"
    /\ out' = [done |-> TRUE, fetched |-> TRUE, res |-> convert_player(arg.obj, 1, 1)]
    /\ UNCHANGED <<arg, driverVars>>

\* convert_matchup(espn_matchup, team_mapping, week)
RunConvertMatchup ==
    /\ ~out.done /\ arg.kind = "matchup"
    /\ out' = [done |-> TRUE, fetched |-> TRUE,
               res |-> Return(convert_matchup(arg.obj, arg.team_mapping, arg.week, 1, 1))]
    /\ UNCHANGED <<arg, driverVars>>

\* convert_league_config(espn_league)
RunConvertLeagueConfig ==
    /\ ~out.done /\ arg.kind = "league"
    /\ out' = [done |-> TRUE, fetched |-> TRUE, res |-> convert_league_config(arg.obj, 1)]
    /\ UNCHANGED <<arg, driverVars>>

NextConvert ==
    RunConvertTeam \/ RunConvertPlayer \/ RunConvertMatchup \/ RunConvertLeagueConfig

SpecConvert == InitConvert /\ [][NextConvert]_vars

Converted(kind) == out.done /\ arg.kind = kind /\ out.res.ok /\ out.res.val # None

\* C15: the winner of a converted matchup follows the scores: the home
\* team's id when the home score is greater, the away team's id when the
\* away score is greater, absent when the scores are equal.
C15_WinnerFollowsScores ==
    Converted("matchup") =>
        LET m == out.res.val
        IN /\ m.home_score > m.away_score => m.winner_id = m.home_team_id
           /\ m.away_score > m.home_score => m.winner_id = m.away_team_id
           /\ m.home_score = m.away_score => m.winner_id = None

FirstOwner(espn_team) == espn_team.owners[1][1]

NoOwners(espn_team) == ~Has(espn_team.owners) \/ espn_team.owners[1] = <<>>

\* C16: a converted team whose owner list is empty or absent has owner name
\* "Unknown Owner"; a converted team whose first owner record is a mapping
\* with a displayName entry has that displayName as its owner name.
C16_OwnerNameFromDisplayName ==
    Converted("team") =>
        /\ NoOwners(arg.obj) => out.res.val.owner_name = "Unknown Owner"
        /\ (/\ ~NoOwners(arg.obj)
            /\ FirstOwner(arg.obj).t = "dict"
            /\ Has(FirstOwner(arg.obj).displayName)) =>
              out.res.val.owner_name = FirstOwner(arg.obj).displayName[1]

\* the first of two owner records is a mapping with a displayName
C16_Witness ==
    /\ Converted("team")
    /\ arg.obj.owners = << <<JaneDoe, BobString>> >>
    /\ out.res.val.owner_name = "Jane Doe"

\* C17: a converted team whose owner list is non-empty, and whose first
\* owner record neither has a displayName nor is a string, has the literal
\* owner name "Unknown Owner".
C17_UnknownOwnerFallback ==
    (/\ Converted("team")
     /\ ~NoOwners(arg.obj)
     /\ ~(FirstOwner(arg.obj).t = "dict" /\ Has(FirstOwner(arg.obj).displayName))
     /\ FirstOwner(arg.obj).t # "str") =>
        out.res.val.owner_name = "Unknown Owner"

\* C18: a converted player's position is the lookup-table image of the
\* source position code when the code is in the table, and QB for every
\* other code.
C18_PositionByTable ==
    Converted("player") =>
        LET code == arg.obj.position[1]
        IN out.res.val.position =
              (IF code \in {"QB", "RB", "WR", "TE", "K", "DEF", "FLEX", "SUPERFLEX"}
               THEN position_mapping[code] ELSE "QB")

\* a player with a code that is not in the table
C18_Witness ==
    /\ Converted("player")
    /\ arg.obj.position = <<"D/ST">>
    /\ out.res.val.position = "QB"

\* C19: is_injured and is_active of a converted player are each the integer
\* 0 or 1, whatever the source has for injured and active.
C19_FlagsAreZeroOrOne ==
    Converted("player") =>
        /\ out.res.val.is_injured \in {0, 1}
        /\ out.res.val.is_active \in {0, 1}

\* injured is the integer 2 and active is None
C19_Witness ==
    /\ Converted("player")
    /\ arg.obj.injured = <<PyInt(2)>> /\ arg.obj.active = <<PyNone>>
    /\ out.res.val.is_injured = 1 /\ out.res.val.is_active = 0

\* C20: the injury status of a converted player is absent for an empty
\* list, the text of the first element for a non-empty list, and the string
\* itself for a plain string.
C20_InjuryStatusByShape ==
    (Converted("player") /\ Has(arg.obj.injuryStatus)) =>
        LET raw == arg.obj.injuryStatus[1]
            status == out.res.val.injury_status
        IN /\ (raw.t = "list" /\ raw.l = <<>>) => status = None
           /\ (raw.t = "list" /\ raw.l # <<>>) => status = <<PyStr(raw.l[1])>>
           /\ raw.t = "str" => status = <<raw.s>>

\* a list of two statuses
C20_Witness ==
    /\ Converted("player")
    /\ arg.obj.injuryStatus = <<PyList(<<PyText("OUT"), PyText("DOUBTFUL")>>)>>
    /\ out.res.val.injury_status = <<"OUT">>

\* C21: when the league name, league id and season year are readable (and
\* every value the settings do expose is within the model's bounds), the
\* absence of another settings field, the playoff team count or the scoring
\* settings in particular, does not make convert_league_config fail.
C21_OptionalSettingsNotFatal ==
    (/\ out.done /\ arg.kind = "league"
     /\ Has(arg.obj.name) /\ arg.obj.name[1] # ""
     /\ arg.obj.year >= 2000 /\ arg.obj.year <= 2030
     /\ Len(arg.obj.teams) >= 2 /\ Len(arg.obj.teams) <= 32
     /\ Has(arg.obj.playoff_team_count) =>
           (arg.obj.playoff_team_count[1] >= 2 /\ arg.obj.playoff_team_count[1] <= 16)) =>
        out.res.ok

----------------------------------------------------------------------------
(* Further properties of init_espn_data (specification Spec)                *)

OutOfBounds(l) ==
    \/ l.year < 2000 \/ l.year > 2030
    \/ Len(l.teams) < 2 \/ Len(l.teams) > 32

StatementRank(st) ==
    CASE st = <<"DELETE", "fantasy_matchups">> -> 1
      [] st = <<"DELETE", "roster_entries">> -> 2
      [] st = <<"DELETE", "players">> -> 3
      [] st = <<"DELETE", "fantasy_teams">> -> 4
      [] st = <<"DELETE", "league_config">> -> 5
      [] st = <<"INSERT", "league_config">> -> 6
      [] st = <<"INSERT", "fantasy_teams">> -> 7
      [] st = <<"INSERT", "players">> -> 8
      [] st[2] = "roster_positions" -> 9
      [] st = <<"INSERT", "roster_entries">> -> 9
      [] st = <<"INSERT", "fantasy_matchups">> -> 10
      [] OTHER -> 11

RowIds(t, table) == {r.id : r \in t[table]}

\* C23: within one snapshot write the five deletes run first, in the order
\* matchups, roster entries, players, teams, league config, and the inserts
\* follow in the order league config, teams, players, roster entries,
\* matchups; at no point does the writer's connection hold a roster entry or
\* matchup row whose team or player row is not yet inserted.
C23_StatementsInDependencyOrder ==
    /\ \A i, j \in 1..Len(stmts) : i < j => StatementRank(stmts[i]) <= StatementRank(stmts[j])
    /\ \A i \in 1..Len(stmts) :
          (i <= Len(Deletes)) = (stmts[i][1] = "DELETE")
    /\ tx.open =>
          /\ \A e \in tx.t["roster_entries"] :
                /\ e.fantasy_team_id \in RowIds(tx.t, "fantasy_teams")
                /\ e.player_id \in RowIds(tx.t, "players")
          /\ \A m \in tx.t["fantasy_matchups"] :
                /\ m.home_team_id \in RowIds(tx.t, "fantasy_teams")
                /\ m.away_team_id \in RowIds(tx.t, "fantasy_teams")

\* a write over an earlier snapshot that has inserted teams, players, roster
\* entries and a matchup, and is about to commit
C23_Witness ==
    /\ pc = "write" /\ tx.open /\ run = 2
    /\ pre["roster_entries"] # {}
    /\ tx.t["roster_entries"] # {}
    /\ tx.t["fantasy_matchups"] # {}
    /\ ip > Len(Script(snap.val, run))

BenchRows(t) == {r \in t["roster_positions"] : r.position = "BN"}

EntriesHaveSlot(t) ==
    \A e \in t["roster_entries"] : e.roster_position_id \in RowIds(t, "roster_positions")

\* C24: over any number of roster entries in one write and any number of
\* successive writes, the writer inserts a bench row only when the lookup
\* by position finds none: roster_positions never holds more than one "BN"
\* row, and every roster entry row references a roster_positions row.
C24_OneBenchRow ==
    /\ Cardinality(BenchRows(db)) <= 1 /\ EntriesHaveSlot(db)
    /\ tx.open => (Cardinality(BenchRows(tx.t)) <= 1 /\ EntriesHaveSlot(tx.t))
    /\ Executed("INSERT", "roster_positions") => ~HasBench(pre)
    /\ \A i, j \in 1..Len(stmts) :
          (stmts[i] = <<"INSERT", "roster_positions">> /\ stmts[j] = stmts[i]) => i = j

\* the second write finds the bench row the first write created and makes
\* its roster entry refer to it
C24_Witness ==
    /\ pc = "done" /\ ret = "True" /\ run = 2
    /\ BenchRows(pre) = {BenchRow(1, 1)}
    /\ BenchRows(db) = {BenchRow(1, 1)}
    /\ db["roster_entries"] # {}
    /\ \A e \in db["roster_entries"] :
          e.id[1] = 2 /\ e.roster_position_id = BenchRow(1, 1).id
    /\ ~Executed("INSERT", "roster_positions")

\* the fantasy_teams row inserted for a source team id, the players row
\* inserted for a source player id
TeamRowFor(t, source_id) ==
    {r.id : r \in {x \in t["fantasy_teams"] : x.platform_team_id = Str(source_id)}}

PlayerRowFor(t, source_id) ==
    {r.id : r \in {x \in t["players"] : x.espn_id = Str(source_id)}}

\* C25: after a successful persist the store holds one roster_entries row
\* per roster entry and one fantasy_matchups row per matchup of the
\* snapshot, and the team and player references of each row are the ids of
\* the fantasy_teams and players rows inserted in this write for the source
\* team and source player the row comes from.
C25_RowsReferenceThisWrite ==
    (pc = "done" /\ ret = "True") =>
        LET s == snap.val
        IN /\ Cardinality(db["roster_entries"]) = Len(s.roster_entries)
           /\ Cardinality(db["fantasy_matchups"]) = Len(s.matchups)
           /\ \A n \in 1..Len(s.roster_entries) :
                 LET ti == s.roster_entries[n].id[3] \div 100
                     pi == s.roster_entries[n].id[3] % 100
                 IN \E row \in db["roster_entries"] :
                       /\ row.id = NewId(run, "roster_db_id", n)
                       /\ row.fantasy_team_id \in TeamRowFor(db, league.teams[ti].team_id)
                       /\ row.player_id
                            \in PlayerRowFor(db, league.teams[ti].roster[pi].playerId[1])
           /\ \A n \in 1..Len(s.matchups) :
                 LET week == s.matchups[n].id[3] \div 100
                     game == league.scoreboard[week].games[s.matchups[n].id[3] % 100]
                 IN \E row \in db["fantasy_matchups"] :
                       /\ row.id = NewId(run, "matchup_db_id", n)
                       /\ row.week = week
                       /\ row.home_team_id \in TeamRowFor(db, game.home_team)
                       /\ row.away_team_id \in TeamRowFor(db, game.away_team)

\* a second persisted snapshot with a roster entry and a matchup between
\* two teams
C25_Witness ==
    /\ pc = "done" /\ ret = "True" /\ run = 2
    /\ pre["fantasy_teams"] # {}
    /\ Cardinality(db["fantasy_teams"]) = 2
    /\ Cardinality(db["roster_entries"]) = 1
    /\ Cardinality(db["fantasy_matchups"]) = 1

----------------------------------------------------------------------------
(* startup_event of src/src/main.py: the ETL runs when fantasy_teams is     *)
(* empty; the application may be restarted                                  *)

\* a league that persists with two teams, a league none of whose teams
\* converts, and a league whose config does not convert
StartupLeagues ==
    { SrcLeague(<<"League">>,
                << SrcTeam(1, <<"Alpha">>, 8, <<SrcPlayer(FirstPlayerId)>>),
                   SrcTeam(2, <<"Beta">>, 6, <<>>) >>,
                NoFreeAgents, Board({2}, <<SrcGame(1, 2, 100, 80)>>)),
      SrcLeague(<<"League">>,
                << SrcTeam(1, <<>>, 8, <<SrcPlayer(FirstPlayerId)>>),
                   SrcTeam(2, <<>>, 6, <<>>) >>,
                NoFreeAgents, Board({2}, <<SrcGame(1, 2, 100, 80)>>)),
      SrcLeague(<<>>,
                << SrcTeam(1, <<"Alpha">>, 8, <<SrcPlayer(FirstPlayerId)>>),
                   SrcTeam(2, <<"Beta">>, 6, <<>>) >>,
                NoFreeAgents, Board({2}, <<SrcGame(1, 2, 100, 80)>>)) }

\* a count that is always zero
teams_count_zero(file) == 0

\* execute_query("SELECT COUNT(*) as count FROM fantasy_teams")[0]["count"]
teams_count(file) == Cardinality(file["fantasy_teams"])

Down == [phase |-> "down", starts |-> 0, skipped |-> FALSE,
         before |-> EmptyStore, runs |-> 0]

InitStartup ==
    /\ DriverInit
    /\ arg = <<>>
    /\ out = Down

\* the application starts: startup_event enters its try block and
\* init_database() finds the file or creates it from the schema
StartupBegin ==
    /\ out.phase \in {"down", "up", "aborted"}
    /\ pc \in {"idle", "done"}
    /\ out.starts < MaxRuns + 1
    /\ out' = [phase |-> "checking", starts |-> out.starts + 1, skipped |-> FALSE,
               before |-> db, runs |-> run]
    /\ UNCHANGED <<arg, driverVars>>

\* teams_count = execute_query(...); if the count is 0, init_espn_data() is
\* called, otherwise startup_event returns
StartupCountTeams ==
    /\ out.phase = "checking"
    /\ IF teams_count(ReadStore(db, tx.t)) = 0
       THEN /\ run < MaxRuns
            /\ \E l \in StartupLeagues, e \in BOOLEAN :
                  /\ league' = l
                  /\ envOk' = e
            /\ run' = run + 1
            /\ pc' = "env"
            /\ ip' = 1
            /\ valid' = "none"
            /\ snap' = NoSnap
            /\ ret' = "none"
            /\ pre' = db
            /\ stmts' = <<>>
            /\ out' = [out EXCEPT !.phase = "etl"]
            /\ UNCHANGED <<db, tx, seen, arg>>
       ELSE /\ out' = [out EXCEPT !.phase = "up", !.skipped = TRUE]
            /\ UNCHANGED <<arg, driverVars>>

\* init_espn_data has returned or raised: startup_event returns on success
\* and raises otherwise ("no fallback available", or the escaped exception)
StartupFinish ==
    /\ out.phase = "etl"
    /\ pc = "done"
    /\ out' = [out EXCEPT !.phase = IF ret = "True" THEN "up" ELSE "aborted"]
    /\ UNCHANGED <<arg, driverVars>>

NextStartup ==
    \/ StartupBegin \/ StartupCountTeams \/ StartupFinish
    \/ ReadEnv \/ Validate \/ GetData \/ ExecStmt \/ Commit

SpecStartup == InitStartup /\ [][NextStartup]_vars

\* C28: the startup hook calls init_espn_data only when fantasy_teams is
\* empty; when the table holds a row at startup, nothing is called, deleted
\* or inserted, however often the application is restarted.
C28_PopulatedStoreUntouched ==
    /\ out.phase = "etl" => out.before["fantasy_teams"] = {}
    /\ out.before["fantasy_teams"] # {} =>
          /\ out.phase \in {"checking", "up"}
          /\ db = out.before /\ run = out.runs /\ ~tx.open
    /\ out.skipped => (db = out.before /\ run = out.runs)

\* the second restart of an application whose first start persisted a
\* snapshot with teams
C28_Witness ==
    /\ out.phase = "up" /\ out.skipped /\ out.starts = 3
    /\ db["fantasy_teams"] # {} /\ db["players"] # {}
    /\ run = 1

\* C29: whenever startup_event returns without raising, fantasy_teams holds
\* at least one row.
C29_NoNormalStartupOnEmptyStore ==
    out.phase = "up" => db["fantasy_teams"] # {}

----------------------------------------------------------------------------
(* create_trade_proposal of src/src/main.py, interleaved with the ETL:     *)
(* trade_proposals and trade_items live in the same file as the snapshot   *)

MaxRequests == 1    \* POST /api/trades/proposals requests in one behaviour

TradeLeagues ==
    { SrcLeague(<<"League">>,
                << SrcTeam(1, <<"Alpha">>, 8, <<SrcPlayer(FirstPlayerId)>>),
                   SrcTeam(2, <<"Beta">>, 6, <<>>) >>,
                NoFreeAgents, Board({2}, <<SrcGame(1, 2, 100, 80)>>)) }

NoSuchId == NewId(0, "unknown", 0)      \* an id no table holds

NoRequest == [kind |-> "none"]

NoTrades == [trade_proposals |-> {}, trade_items |-> {}, n |-> 0]

\* the request's parameters: ids a client has read from the store, or not
TradeRequests ==
    LET teams == RowIds(db, "fantasy_teams") \cup {NoSuchId}
        one == {<<q>> : q \in RowIds(db, "players")}
    IN  { [kind |-> "trade", at |-> "teams", status |-> 0,
           proposing_team_id |-> a, receiving_team_id |-> b,
           proposing_players |-> pp, receiving_players |-> rp,
           proposal_id |-> NewId(out.n + 1, "proposal", 0),
           teams_exist |-> <<>>, proposing_on_roster |-> <<>>,
           receiving_on_roster |-> <<>>,
           before |-> [trade_proposals |-> out.trade_proposals,
                       trade_items |-> out.trade_items]] :
          a \in teams, b \in teams,
          pp \in {<<>>} \cup one, rp \in {<<>>} \cup one }

\* every id of the list is the player of a roster row of the team
OnRoster(file, players, team) ==
    \A i \in 1..Len(players) :
        \E r \in file["roster_entries"] :
            r.player_id = players[i] /\ r.fantasy_team_id = team

\* SELECT id FROM fantasy_teams WHERE id IN (?, ?)
teams_query(file, a, b) == {r.id : r \in {x \in file["fantasy_teams"] : x.id \in {a, b}}}

\* SELECT COUNT(*) FROM roster_entries re
\* WHERE re.player_id IN (...) AND re.fantasy_team_id = ?
players_query(file, players, team) ==
    Cardinality({r \in file["roster_entries"] :
                    r.player_id \in SeqToSet(players) /\ r.fantasy_team_id = team})

\* no validation of the offered players
players_belong_unchecked(file, players, team) == TRUE

\* if players: count = execute_query(...); count != len(players) raises 400
players_belong(file, players, team) ==
    players = <<>> \/ players_query(file, players, team) = Len(players)

\* the rows the three INSERT statements add
ProposalRow(r) ==
    [id |-> r.proposal_id, proposing_team_id |-> r.proposing_team_id,
     receiving_team_id |-> r.receiving_team_id]

ItemRows(r) ==
    { [id |-> NewId(r.proposal_id[1], "item", i), trade_proposal_id |-> r.proposal_id,
       team_id |-> r.proposing_team_id, player_id |-> r.proposing_players[i]] :
         i \in 1..Len(r.proposing_players) }
    \cup
    { [id |-> NewId(r.proposal_id[1], "item", Len(r.proposing_players) + i),
       trade_proposal_id |-> r.proposal_id,
       team_id |-> r.receiving_team_id, player_id |-> r.receiving_players[i]] :
         i \in 1..Len(r.receiving_players) }

Answer(r, code) == [r EXCEPT !.at = "done", !.status = code]

InitTrades ==
    /\ DriverInit
    /\ arg = NoRequest
    /\ out = NoTrades

\* init_espn_data() is called
TradeCall ==
    /\ pc \in {"idle", "done"}
    /\ run < MaxRuns
    /\ \E l \in TradeLeagues :
          /\ league' = l
          /\ envOk' = TRUE
    /\ run' = run + 1
    /\ pc' = "env"
    /\ ip' = 1
    /\ valid' = "none"
    /\ snap' = NoSnap
    /\ ret' = "none"
    /\ pre' = db
    /\ stmts' = <<>>
    /\ UNCHANGED <<db, tx, seen, arg, out>>

\* a request arrives
TradeRequest ==
    /\ IF arg.kind = "none" THEN TRUE ELSE arg.at = "done"
    /\ out.n < MaxRequests
    /\ arg' \in TradeRequests
    /\ out' = [out EXCEPT !.n = out.n + 1]
    /\ UNCHANGED driverVars

\* teams = execute_query(teams_query, ...); len(teams) != 2 raises 400
ValidateTeams ==
    /\ arg.kind = "trade" /\ arg.at = "teams"
    /\ LET file == ReadStore(db, tx.t)
           teams == teams_query(file, arg.proposing_team_id, arg.receiving_team_id)
           seenIt == [arg EXCEPT !.teams_exist =
                        <<{arg.proposing_team_id, arg.receiving_team_id}
                              \subseteq RowIds(file, "fantasy_teams")>>]
       IN  arg' = IF Cardinality(teams) # 2 THEN Answer(seenIt, 400)
                  ELSE [seenIt EXCEPT !.at = "proposing"]
    /\ UNCHANGED <<out, driverVars>>

\* the proposing team's players are counted on its roster
ValidateProposing ==
    /\ arg.kind = "trade" /\ arg.at = "proposing"
    /\ LET file == ReadStore(db, tx.t)
           seenIt == [arg EXCEPT !.proposing_on_roster =
                        <<OnRoster(file, arg.proposing_players, arg.proposing_team_id)>>]
       IN  arg' = IF players_belong(file, arg.proposing_players, arg.proposing_team_id)
                  THEN [seenIt EXCEPT !.at = "receiving"]
                  ELSE Answer(seenIt, 400)
    /\ UNCHANGED <<out, driverVars>>

\* the receiving team's players are counted on its roster
ValidateReceiving ==
    /\ arg.kind = "trade" /\ arg.at = "receiving"
    /\ LET file == ReadStore(db, tx.t)
           seenIt == [arg EXCEPT !.receiving_on_roster =
                        <<OnRoster(file, arg.receiving_players, arg.receiving_team_id)>>]
       IN  arg' = IF players_belong(file, arg.receiving_players, arg.receiving_team_id)
                  THEN [seenIt EXCEPT !.at = "insert"]
                  ELSE Answer(seenIt, 400)
    /\ UNCHANGED <<out, driverVars>>

\* with get_db_connection() as conn: the INSERTs and conn.commit(); while
\* the ETL's transaction holds the write lock the first INSERT raises
\* "database is locked", the connection is closed and the answer is 500
InsertProposal ==
    /\ arg.kind = "trade" /\ arg.at = "insert"
    /\ IF tx.open
       THEN /\ arg' = Answer(arg, 500)
            /\ out' = out
       ELSE /\ arg' = Answer(arg, 201)
            /\ out' = [out EXCEPT !.trade_proposals = @ \cup {ProposalRow(arg)},
                                  !.trade_items = @ \cup ItemRows(arg)]
    /\ UNCHANGED driverVars

NextTrades ==
    \/ TradeCall \/ ReadEnv \/ Validate \/ GetData \/ ExecStmt \/ Commit
    \/ TradeRequest \/ ValidateTeams \/ ValidateProposing \/ ValidateReceiving
    \/ InsertProposal

SpecTrades == InitTrades /\ [][NextTrades]_vars

C30_TradeReferencesResolve ==
    /\ \A r \in out.trade_proposals :
          /\ r.proposing_team_id \in RowIds(db, "fantasy_teams")
          /\ r.receiving_team_id \in RowIds(db, "fantasy_teams")
    /\ \A i \in out.trade_items : i.player_id \in RowIds(db, "players")
====
